---- MODULE Spec2Model ----
(***************************************************************************)
(* Model of create-replicate-snapshots.py: main() snapshots every volume   *)
(* of a list in the source region (create_snapshots_from_vols) and, when a *)
(* destination region is given, waits for each snapshot and copies it to   *)
(* that region (copy_snapshot_to_dest_region).  Every provider call is one *)
(* step; the provider's answer (success, error response, exception) is     *)
(* chosen nondeterministically.  Other actors may retag volumes and        *)
(* snapshots and the provider moves snapshots from pending to completed or *)
(* error while the script runs.                                            *)
(***************************************************************************)
EXTENDS Integers, Sequences, FiniteSets, TLC

\* ------------------------------------------------------------------ bounds
MaxVols == 3
MaxRetags == 1

\* ------------------------------------------------------- program constants
\* The MaxAttempts the snapshot_completed waiter uses when line 54 gives none.
WaiterDefaultMaxAttempts == 4 * 10

SNAPSHOT_WAITER == 10

\* --------------------------------------------------------------- the world
VolumeIds == {"vol-A", "vol-B", "vol-C", "vol-D"}
SourceRegion == "us-west-2"
DestRegions == {"", "us-east-1"}

T1 == [Key |-> "Name", Value |-> "db"]
T2 == [Key |-> "env", Value |-> "prod"]
TagSets == {<<T1>>, <<T1, T2>>, <<T2, T1>>}
NoTags == <<>>

NoMessage == [vol |-> "", error |-> ""]

\* The tags of the volumes when the script starts: neighbours in the input
\* list differ in their pairs or in the order of their pairs.
InitVolTags ==
  [v \in VolumeIds |-> CASE v = "vol-A" -> <<T1>>
                         [] v = "vol-B" -> <<T1, T2>>
                         [] v = "vol-C" -> <<T2, T1>>
                         [] OTHER -> <<T1>>]

\* What a retag by another actor turns a tag set into: always another one.
Retagged(t) ==
  CASE t = <<T1>> -> <<T1, T2>>
    [] t = <<T1, T2>> -> <<T2, T1>>
    [] OTHER -> <<T1>>

\* The input lists: the first n volumes, n up to MaxVols.  The script never
\* compares volume ids, so lists of the same length differ only in names.
AllVolumes == <<"vol-A", "vol-B", "vol-C", "vol-D">>
Min(a, b) == IF a < b THEN a ELSE b
VolumeLists == {SubSeq(AllVolumes, 1, n) : n \in 0..Min(MaxVols, Len(AllVolumes))}

VARIABLES
  volumes,            \* main: the list loaded from the input file
  dest_region,        \* main: the -dest_region argument ("" when absent)
  pc,                 \* position of the script
  exc,                \* the exception that ended the run ("" when none)
  i,                  \* create_snapshots_from_vols: index of `volume`
  volume_tags,        \* create_snapshots_from_vols: local
  snapshots,          \* create_snapshots_from_vols: local result list
  exception_message,  \* create_snapshots_from_vols: local of the handler
  main_snapshots,     \* main: the value create_snapshots_from_vols returned
  copy_snapshots,     \* copy_snapshot_to_dest_region: its `snapshots` argument
  copy_calls,         \* number of invocations of copy_snapshot_to_dest_region
  j,                  \* copy_snapshot_to_dest_region: index of `snapshot`
  snapshot_tags,      \* copy_snapshot_to_dest_region: local
  attempts,           \* polls made by the current waiter.wait
  volTags,            \* provider: tags of each volume
  srcSnaps,           \* provider, source region: snapshot id -> [vol, tags, state]
  destSnaps,          \* provider, destination region: the copies
  log,                \* every provider call the script made, in order
  out,                \* the lines the script printed, in order
  retags              \* number of retag operations by other actors

vars == <<volumes, dest_region, pc, exc, i, volume_tags, snapshots,
          exception_message, main_snapshots, copy_snapshots, copy_calls, j,
          snapshot_tags, attempts, volTags, srcSnaps, destSnaps, log, out,
          retags>>

mainVars == <<volumes, dest_region>>
createVars == <<i, volume_tags, snapshots, exception_message>>
copyVars == <<copy_snapshots, copy_calls, j, snapshot_tags, attempts>>
providerVars == <<volTags, srcSnaps, destSnaps>>

\* A provider call: client is "source" or "dest"; pos is the loop index of
\* the iteration that issued it; res is its outcome.
Call(client, op, pos, vol, snap, tags, src, dst, res) ==
  [client |-> client, op |-> op, pos |-> pos, vol |-> vol, snap |-> snap,
   tags |-> tags, src |-> src, dst |-> dst, res |-> res]

\* A printed line.
Line(kind, vol, snap, n, detail) ==
  [kind |-> kind, vol |-> vol, snap |-> snap, n |-> n, detail |-> detail]

Init ==
  /\ volumes \in VolumeLists
  /\ dest_region \in DestRegions
  /\ pc = "create_entry"
  /\ exc = ""
  /\ i = 0
  /\ volume_tags = NoTags
  /\ snapshots = <<>>
  /\ exception_message = NoMessage
  /\ main_snapshots = <<>>
  /\ copy_snapshots = <<>>
  /\ copy_calls = 0
  /\ j = 0
  /\ snapshot_tags = NoTags
  /\ attempts = 0
  /\ volTags = InitVolTags
  /\ srcSnaps = <<>>
  /\ destSnaps = <<>>
  /\ log = <<>>
  /\ out = <<>>
  /\ retags = 0

\* ------------------------------------------- create_snapshots_from_vols

\* CreateEntry without the check of lines 28-30: the loop over an empty list
\* ends at once and the empty result is returned.
CreateEntryNoCheck ==
  /\ pc = "create_entry"
  /\ IF Len(volumes) < 1
       THEN /\ pc' = "main_if"
            /\ UNCHANGED i
       ELSE /\ pc' = "describe_volumes"
            /\ i' = 1
  /\ out' = Append(out, Line("volumes_count", "", 0, Len(volumes), ""))
  /\ snapshots' = <<>>
  /\ main_snapshots' = main_snapshots
  /\ UNCHANGED <<mainVars, exc, volume_tags, exception_message, copyVars,
                 providerVars, log, retags>>

\* Lines 28-32: the empty-list check, the count line, snapshots = [].
CreateEntry ==
  /\ pc = "create_entry"
  /\ IF Len(volumes) < 1
       THEN /\ pc' = "raised"
            /\ exc' = "Exception"
            /\ UNCHANGED <<i, out>>
       ELSE /\ pc' = "describe_volumes"
            /\ i' = 1
            /\ out' = Append(out, Line("volumes_count", "", 0, Len(volumes), ""))
            /\ exc' = exc
  /\ snapshots' = <<>>
  /\ UNCHANGED <<mainVars, volume_tags, exception_message, main_snapshots,
                 copyVars, providerVars, log, retags>>

\* Line 34, the call answers with the volume's Tags.
DescribeVolumesOk ==
  /\ pc = "describe_volumes"
  /\ volume_tags' = volTags[volumes[i]]
  /\ log' = Append(log, Call("source", "describe_volumes", i, volumes[i], 0,
                             volTags[volumes[i]], "", "", "ok"))
  /\ pc' = "create_snapshot"
  /\ UNCHANGED <<mainVars, exc, i, snapshots, exception_message,
                 main_snapshots, copyVars, providerVars, out, retags>>

\* Line 34 raises: the provider's ClientError, or the KeyError of ['Tags']
\* on a volume described without a Tags entry.  The statement is outside
\* the try of line 35, so the exception leaves the function.
DescribeVolumesRaise(err) ==
  /\ pc' = "raised"
  /\ exc' = err
  /\ UNCHANGED <<i, volume_tags, snapshots, exception_message, out>>

DescribeVolumesFail ==
  /\ pc = "describe_volumes"
  /\ \E err \in {"ClientError", "KeyError"} :
       /\ log' = Append(log, Call("source", "describe_volumes", i, volumes[i],
                                  0, NoTags, "", "", err))
       /\ DescribeVolumesRaise(err)
  /\ UNCHANGED <<mainVars, main_snapshots, copyVars, providerVars, retags>>

\* CreateRequestTags reading the volume's tags again at the request.
CreateRequestTagsRefetched == volTags[volumes[i]]

\* CreateRequestTags reading the tags of the first volume of the list.
CreateRequestTagsFirst == volTags[volumes[1]]

\* The tags line 36 attaches to the create_snapshot request.
CreateRequestTags == volume_tags

\* The end of one iteration of the for loop of line 33: the next volume, or
\* the return of line 45.
NextVolume(result) ==
  IF i < Len(volumes)
    THEN /\ i' = i + 1
         /\ pc' = "describe_volumes"
         /\ UNCHANGED main_snapshots
    ELSE /\ i' = i
         /\ pc' = "main_if"
         /\ main_snapshots' = result

\* Lines 39-41 on a response with HTTPStatusCode 200.
OnStatus200(snapshot_id) ==
  /\ snapshots' = Append(snapshots, snapshot_id)
  /\ out' = Append(out, Line("snapshot_created", volumes[i], snapshot_id, 0, ""))
  /\ NextVolume(Append(snapshots, snapshot_id))

\* OnStatusOther without the test of line 39: the id is appended anyway.
OnStatusOtherAppends(snapshot_id) ==
  /\ snapshots' = Append(snapshots, snapshot_id)
  /\ UNCHANGED out
  /\ NextVolume(Append(snapshots, snapshot_id))

\* Line 39 on a response with another status code: nothing is appended.
OnStatusOther(snapshot_id) ==
  /\ UNCHANGED <<snapshots, out>>
  /\ NextVolume(snapshots)

\* OnCreateException raising the exception again.
OnCreateExceptionRaises(err) ==
  /\ exception_message' = [vol |-> volumes[i], error |-> err]
  /\ pc' = "raised"
  /\ exc' = err
  /\ UNCHANGED <<i, snapshots, out, main_snapshots>>

\* Lines 42-44: the handler builds exception_message and drops it.
OnCreateException(err) ==
  /\ exception_message' = [vol |-> volumes[i], error |-> err]
  /\ UNCHANGED <<snapshots, out, exc>>
  /\ NextVolume(snapshots)

\* Lines 36-41, the provider creates the snapshot and answers 200.
CreateSnapshotOk ==
  /\ pc = "create_snapshot"
  /\ LET id == Len(srcSnaps) + 1 IN
       /\ srcSnaps' = Append(srcSnaps, [vol |-> volumes[i],
                                        tags |-> CreateRequestTags,
                                        state |-> "pending"])
       /\ log' = Append(log, Call("source", "create_snapshot", i, volumes[i],
                                  id, CreateRequestTags, "", "", "200"))
       /\ OnStatus200(id)
  /\ UNCHANGED <<mainVars, exc, volume_tags, exception_message, copyVars,
                 volTags, destSnaps, retags>>

\* Lines 36-39, the provider answers with a status code other than 200.
CreateSnapshotNon200 ==
  /\ pc = "create_snapshot"
  /\ log' = Append(log, Call("source", "create_snapshot", i, volumes[i], 0,
                             CreateRequestTags, "", "", "non200"))
  /\ OnStatusOther(0)
  /\ UNCHANGED <<mainVars, exc, volume_tags, exception_message, copyVars,
                 providerVars, retags>>

\* Line 36 raises (network, permission, provider-side rejection).
CreateSnapshotRaise ==
  /\ pc = "create_snapshot"
  /\ log' = Append(log, Call("source", "create_snapshot", i, volumes[i], 0,
                             CreateRequestTags, "", "", "ClientError"))
  /\ OnCreateException("ClientError")
  /\ UNCHANGED <<mainVars, volume_tags, copyVars, providerVars, retags>>

\* ----------------------------------------------------------------- main

\* MainIf without the test of line 74.
MainIfAlways ==
  /\ pc = "main_if"
  /\ pc' = "copy_entry"
  /\ copy_snapshots' = main_snapshots
  /\ copy_calls' = copy_calls + 1
  /\ UNCHANGED <<mainVars, exc, createVars, main_snapshots, j, snapshot_tags,
                 attempts, providerVars, log, out, retags>>

\* Lines 74-76: replicate only when dest_region is not the empty string.
MainIf ==
  /\ pc = "main_if"
  /\ IF dest_region # ""
       THEN /\ pc' = "copy_entry"
            /\ copy_snapshots' = main_snapshots
            /\ copy_calls' = copy_calls + 1
       ELSE /\ pc' = "done"
            /\ UNCHANGED <<copy_snapshots, copy_calls>>
  /\ UNCHANGED <<mainVars, exc, createVars, main_snapshots, j, snapshot_tags,
                 attempts, providerVars, log, out, retags>>

\* ----------------------------------------- copy_snapshot_to_dest_region

\* CopyEntry refusing an empty list the way create_snapshots_from_vols does.
CopyEntryRaisesOnEmpty ==
  /\ pc = "copy_entry"
  /\ IF Len(copy_snapshots) = 0
       THEN pc' = "raised" /\ exc' = "Exception" /\ UNCHANGED <<j, out>>
       ELSE /\ pc' = "wait_start" /\ j' = 1 /\ exc' = exc
            /\ out' = Append(out, Line("found_snapshots", "", 0,
                                       Len(copy_snapshots), ""))
  /\ UNCHANGED <<mainVars, createVars, main_snapshots, copy_snapshots,
                 copy_calls, snapshot_tags, attempts, providerVars, log,
                 retags>>

\* Line 48 and the start of the for loop of line 49 (an empty list ends the
\* call at once).
CopyEntry ==
  /\ pc = "copy_entry"
  /\ out' = Append(out, Line("found_snapshots", "", 0, Len(copy_snapshots), ""))
  /\ IF Len(copy_snapshots) = 0
       THEN pc' = "done" /\ j' = j
       ELSE pc' = "wait_start" /\ j' = 1
  /\ UNCHANGED <<mainVars, exc, createVars, main_snapshots, copy_snapshots,
                 copy_calls, snapshot_tags, attempts, providerVars, log,
                 retags>>

\* Lines 50-54: the waiter is asked to wait with MaxAttempts SNAPSHOT_WAITER.
WaitStart ==
  /\ pc = "wait_start"
  /\ out' = Append(out, Line("waiting", "", copy_snapshots[j], 0, ""))
  /\ log' = Append(log, Call("source", "wait", j, "", copy_snapshots[j],
                             NoTags, "", "", "pending"))
  /\ attempts' = 0
  /\ pc' = "waiting"
  /\ UNCHANGED <<mainVars, exc, createVars, main_snapshots, copy_snapshots,
                 copy_calls, j, snapshot_tags, providerVars, retags>>

\* The outcome of the wait of lines 53-54 is written into its log entry.
WaitResult(res) == [log EXCEPT ![Len(log)].res = res]

\* OnWaiterError without the raise of line 57: the call goes on to the copy.
OnWaiterErrorSwallowed ==
  /\ out' = Append(out, Line("error_not_available", "", copy_snapshots[j], 0,
                             "WaiterError"))
  /\ pc' = "describe_snapshots"
  /\ exc' = exc

\* Lines 55-57: the handler prints the error line and raises again.
OnWaiterError ==
  /\ out' = Append(out, Line("error_not_available", "", copy_snapshots[j], 0,
                             "WaiterError"))
  /\ pc' = "raised"
  /\ exc' = "WaiterError"

\* waiter.wait: one poll finds the snapshot still pending with attempts left.
WaitPollPending ==
  /\ pc = "waiting"
  /\ srcSnaps[copy_snapshots[j]].state = "pending"
  /\ attempts + 1 < SNAPSHOT_WAITER
  /\ attempts' = attempts + 1
  /\ UNCHANGED <<mainVars, pc, exc, createVars, main_snapshots,
                 copy_snapshots, copy_calls, j, snapshot_tags, providerVars,
                 log, out, retags>>

\* waiter.wait: a poll finds the snapshot completed; wait returns.
WaitPollCompleted ==
  /\ pc = "waiting"
  /\ srcSnaps[copy_snapshots[j]].state = "completed"
  /\ attempts' = 0
  /\ log' = WaitResult("ok")
  /\ pc' = "describe_snapshots"
  /\ UNCHANGED <<mainVars, exc, createVars, main_snapshots, copy_snapshots,
                 copy_calls, j, snapshot_tags, providerVars, out, retags>>

\* waiter.wait raises WaiterError: the snapshot is in the error state, or
\* the last of the SNAPSHOT_WAITER polls still finds it pending.
WaitFail ==
  /\ pc = "waiting"
  /\ \/ srcSnaps[copy_snapshots[j]].state = "error"
     \/ /\ srcSnaps[copy_snapshots[j]].state = "pending"
        /\ attempts + 1 >= SNAPSHOT_WAITER
  /\ attempts' = attempts + 1
  /\ log' = WaitResult("WaiterError")
  /\ OnWaiterError
  /\ UNCHANGED <<mainVars, createVars, main_snapshots, copy_snapshots,
                 copy_calls, j, snapshot_tags, providerVars, retags>>

\* CopyRequestTags using the tags left over from the creation phase.
CopyRequestTagsStale == volume_tags

\* The tags line 61 attaches to the copy_snapshot request.
CopyRequestTags == snapshot_tags

\* OnClientError with continue in place of the return of line 65.
OnClientErrorContinues ==
  /\ out' = Append(out, Line("error_copy_failed", "", copy_snapshots[j], 0,
                             "ClientError"))
  /\ exc' = exc
  /\ IF j < Len(copy_snapshots)
       THEN j' = j + 1 /\ pc' = "wait_start"
       ELSE j' = j /\ pc' = "done"

\* Lines 63-65: the handler prints the error line and returns.
OnClientError ==
  /\ out' = Append(out, Line("error_copy_failed", "", copy_snapshots[j], 0,
                             "ClientError"))
  /\ pc' = "done"
  /\ UNCHANGED <<exc, j>>

\* The end of one iteration of the for loop of line 49.
NextSnapshot ==
  IF j < Len(copy_snapshots)
    THEN j' = j + 1 /\ pc' = "wait_start"
    ELSE j' = j /\ pc' = "done"

\* Line 60, the call answers with the snapshot's Tags.
DescribeSnapshotsOk ==
  /\ pc = "describe_snapshots"
  /\ snapshot_tags' = srcSnaps[copy_snapshots[j]].tags
  /\ log' = Append(log, Call("source", "describe_snapshots", j, "",
                             copy_snapshots[j],
                             srcSnaps[copy_snapshots[j]].tags, "", "", "ok"))
  /\ pc' = "copy_snapshot"
  /\ UNCHANGED <<mainVars, exc, createVars, main_snapshots, copy_snapshots,
                 copy_calls, j, attempts, providerVars, out, retags>>

\* DescribeSnapshotsClientError with the tag fetch outside the try, as line 34
\* is: the ClientError leaves the function.
DescribeSnapshotsClientErrorRaises ==
  /\ pc = "describe_snapshots"
  /\ log' = Append(log, Call("source", "describe_snapshots", j, "",
                             copy_snapshots[j], NoTags, "", "", "ClientError"))
  /\ pc' = "raised"
  /\ exc' = "ClientError"
  /\ UNCHANGED <<mainVars, createVars, main_snapshots, copy_snapshots,
                 copy_calls, j, snapshot_tags, attempts, providerVars, out,
                 retags>>

\* Line 60 raises ClientError: handled by lines 63-65.
DescribeSnapshotsClientError ==
  /\ pc = "describe_snapshots"
  /\ log' = Append(log, Call("source", "describe_snapshots", j, "",
                             copy_snapshots[j], NoTags, "", "", "ClientError"))
  /\ OnClientError
  /\ UNCHANGED <<mainVars, createVars, main_snapshots, copy_snapshots,
                 copy_calls, snapshot_tags, attempts, providerVars, retags>>

\* Line 60 raises the KeyError of ['Tags'] on a snapshot described without
\* a Tags entry: no handler of the function matches it.
DescribeSnapshotsKeyError ==
  /\ pc = "describe_snapshots"
  /\ log' = Append(log, Call("source", "describe_snapshots", j, "",
                             copy_snapshots[j], NoTags, "", "", "KeyError"))
  /\ pc' = "raised"
  /\ exc' = "KeyError"
  /\ UNCHANGED <<mainVars, createVars, main_snapshots, copy_snapshots,
                 copy_calls, j, snapshot_tags, attempts, providerVars, out,
                 retags>>

\* The request of line 61.
CopyRequest(res, new_id) ==
  Call("dest", "copy_snapshot", j, "", copy_snapshots[j], CopyRequestTags,
       SourceRegion, dest_region, res)

\* CopySnapshotOk with copy_snapshot called on source_client: the copy is
\* made in the source region.
CopySnapshotOkOnSourceClient ==
  /\ pc = "copy_snapshot"
  /\ LET new_snapshot == Len(srcSnaps) + 1 IN
       /\ srcSnaps' = Append(srcSnaps, [vol |-> srcSnaps[copy_snapshots[j]].vol,
                                        tags |-> CopyRequestTags,
                                        state |-> "pending"])
       /\ log' = Append(log, Call("source", "copy_snapshot", j, "",
                                  copy_snapshots[j], CopyRequestTags,
                                  SourceRegion, dest_region, "ok"))
       /\ out' = Append(out, Line("copy_created", "", copy_snapshots[j],
                                  new_snapshot, dest_region))
  /\ NextSnapshot
  /\ UNCHANGED <<mainVars, exc, createVars, main_snapshots, copy_snapshots,
                 copy_calls, snapshot_tags, attempts, volTags, destSnaps,
                 retags>>

\* Lines 61-62, the provider accepts the copy.
CopySnapshotOk ==
  /\ pc = "copy_snapshot"
  /\ LET new_snapshot == Len(destSnaps) + 1 IN
       /\ destSnaps' = Append(destSnaps, [source |-> copy_snapshots[j],
                                          region |-> dest_region,
                                          tags |-> CopyRequestTags])
       /\ log' = Append(log, CopyRequest("ok", new_snapshot))
       /\ out' = Append(out, Line("copy_created", "", copy_snapshots[j],
                                  new_snapshot, dest_region))
  /\ NextSnapshot
  /\ UNCHANGED <<mainVars, exc, createVars, main_snapshots, copy_snapshots,
                 copy_calls, snapshot_tags, attempts, volTags, srcSnaps,
                 retags>>

\* Line 61 raises ClientError: the provider rejects the copy request.
CopySnapshotRejected ==
  /\ pc = "copy_snapshot"
  /\ log' = Append(log, CopyRequest("ClientError", 0))
  /\ OnClientError
  /\ UNCHANGED <<mainVars, createVars, main_snapshots, copy_snapshots,
                 copy_calls, snapshot_tags, attempts, providerVars, retags>>

\* ------------------------------------------------------- the environment

\* The provider finishes a pending snapshot, or fails it.  The script sees
\* a snapshot's state only through the polls of its wait, so the change is
\* taken while that wait is under way.
SnapshotProgress ==
  /\ pc = "waiting"
  /\ \E s \in {copy_snapshots[j]} : \E st \in {"completed", "error"} :
       /\ srcSnaps[s].state = "pending"
       /\ srcSnaps' = [srcSnaps EXCEPT ![s].state = st]
  /\ UNCHANGED <<mainVars, pc, exc, createVars, main_snapshots, copyVars,
                 volTags, destSnaps, log, out, retags>>

\* Another actor replaces the tags of a volume.  The script sees a volume's
\* tags only in the describe_volumes of its iteration, so the change is taken
\* during that iteration: before the tag fetch, or between the fetch and the
\* create_snapshot request.
RetagVolume ==
  /\ pc \in {"describe_volumes", "create_snapshot"}
  /\ retags < MaxRetags
  /\ \E v \in {volumes[i]} : \E t \in {Retagged(volTags[v])} :
       volTags' = [volTags EXCEPT ![v] = t]
  /\ retags' = retags + 1
  /\ UNCHANGED <<mainVars, pc, exc, createVars, main_snapshots, copyVars,
                 srcSnaps, destSnaps, log, out>>

\* Another actor replaces the tags of a source-region snapshot, likewise
\* before its tag fetch or between the fetch and the copy_snapshot request.
RetagSnapshot ==
  /\ pc \in {"describe_snapshots", "copy_snapshot"}
  /\ retags < MaxRetags
  /\ \E s \in {copy_snapshots[j]} : \E t \in {Retagged(srcSnaps[s].tags)} :
       srcSnaps' = [srcSnaps EXCEPT ![s].tags = t]
  /\ retags' = retags + 1
  /\ UNCHANGED <<mainVars, pc, exc, createVars, main_snapshots, copyVars,
                 volTags, destSnaps, log, out>>

Next ==
  \/ CreateEntry
  \/ DescribeVolumesOk
  \/ DescribeVolumesFail
  \/ CreateSnapshotOk
  \/ CreateSnapshotNon200
  \/ CreateSnapshotRaise
  \/ MainIf
  \/ CopyEntry
  \/ WaitStart
  \/ WaitPollPending
  \/ WaitPollCompleted
  \/ WaitFail
  \/ DescribeSnapshotsOk
  \/ DescribeSnapshotsClientError
  \/ DescribeSnapshotsKeyError
  \/ CopySnapshotOk
  \/ CopySnapshotRejected
  \/ SnapshotProgress
  \/ RetagVolume
  \/ RetagSnapshot

Spec == Init /\ [][Next]_vars

\* The steps of the script itself.
ScriptNext ==
  \/ CreateEntry
  \/ DescribeVolumesOk
  \/ DescribeVolumesFail
  \/ CreateSnapshotOk
  \/ CreateSnapshotNon200
  \/ CreateSnapshotRaise
  \/ MainIf
  \/ CopyEntry
  \/ WaitStart
  \/ WaitPollPending
  \/ WaitPollCompleted
  \/ WaitFail
  \/ DescribeSnapshotsOk
  \/ DescribeSnapshotsClientError
  \/ DescribeSnapshotsKeyError
  \/ CopySnapshotOk
  \/ CopySnapshotRejected

\* The script is one sequential process and every provider call returns or
\* raises: while the run has not ended, its next step is eventually taken.
FairSpec == Spec /\ WF_vars(ScriptNext)

\* ------------------------------------------------------------ properties

Calls == 1..Len(log)

CreationPcs == {"create_entry", "describe_volumes", "create_snapshot"}

\* create_snapshots_from_vols has raised: the run ended before line 74.
CreateRaised == pc = "raised" /\ copy_calls = 0

\* create_snapshots_from_vols has returned to main.
CreateReturned == pc \notin CreationPcs /\ ~CreateRaised

CreateFailed(k) == log[k].op = "create_snapshot" /\ log[k].res = "ClientError"

TagFetchFailed(k) == log[k].op = "describe_volumes" /\ log[k].res # "ok"

\* The snapshot ids of the create_snapshot calls of l answered with 200, in
\* the order of the calls.
RECURSIVE CreatedIds(_)
CreatedIds(l) ==
  IF l = <<>> THEN <<>>
  ELSE IF Head(l).op = "create_snapshot" /\ Head(l).res = "200"
         THEN <<Head(l).snap>> \o CreatedIds(Tail(l))
         ELSE CreatedIds(Tail(l))

\* C1: a create_snapshot request that raises is not propagated and does not
\* abort the batch: the call does not end raised on it, the next volume of
\* the list is processed (or, after the last volume, the function returns),
\* the failed volume has no entry in the result, and the function ends
\* raised only on an empty list or a failed tag fetch.
C1_CreateFailureIsolated ==
  /\ \A k \in Calls : CreateFailed(k) =>
       /\ ~(k = Len(log) /\ pc = "raised")
       /\ IF log[k].pos < Len(volumes)
            THEN \/ k = Len(log) /\ pc = "describe_volumes" /\ i = log[k].pos + 1
                 \/ /\ k < Len(log)
                    /\ log[k + 1].op = "describe_volumes"
                    /\ log[k + 1].pos = log[k].pos + 1
            ELSE CreateReturned
       /\ \A m \in 1..Len(snapshots) : srcSnaps[snapshots[m]].vol # log[k].vol
       /\ CreateReturned => main_snapshots = snapshots
  /\ CreateRaised =>
       \/ Len(volumes) = 0
       \/ log # <<>> /\ TagFetchFailed(Len(log))

\* Volumes A, B, C; only B's create_snapshot raised; the function returned
\* the ids of A and C.
C1_Witness ==
  /\ pc = "main_if"
  /\ Len(volumes) = 3
  /\ \E k \in Calls : CreateFailed(k) /\ log[k].pos = 2
  /\ Len(main_snapshots) = 2
  /\ srcSnaps[main_snapshots[1]].vol = volumes[1]
  /\ srcSnaps[main_snapshots[2]].vol = volumes[3]

\* C2: a failed tag fetch (describe_volumes raising, or no Tags entry) is
\* recovered locally: the call does not end raised on it, and the remaining
\* volumes are processed.
C2_TagFetchFailureRecovered ==
  \A k \in Calls : TagFetchFailed(k) =>
    /\ pc # "raised"
    /\ log[k].pos < Len(volumes) =>
         \/ k = Len(log) /\ pc = "describe_volumes" /\ i = log[k].pos + 1
         \/ k < Len(log) /\ log[k + 1].pos = log[k].pos + 1

\* C3: a wait that fails with WaiterError at position p ends the call with
\* that error raised, the wait is the last provider call of the run, and no
\* describe_snapshots or copy_snapshot was issued for position p or later.
C3_WaitFailureAborts ==
  \A k \in Calls : (log[k].op = "wait" /\ log[k].res = "WaiterError") =>
    /\ pc = "raised"
    /\ exc = "WaiterError"
    /\ k = Len(log)
    /\ \A m \in Calls : log[m].op \in {"describe_snapshots", "copy_snapshot"}
                          => log[m].pos < log[k].pos

\* The first snapshot was copied and the wait for the second one failed.
C3_Witness ==
  /\ pc = "raised"
  /\ Len(log) > 2
  /\ log[Len(log)].op = "wait"
  /\ log[Len(log)].res = "WaiterError"
  /\ log[Len(log)].pos = 2
  /\ Len(copy_snapshots) = 3
  /\ Len(destSnaps) = 1

\* C4: a copy request rejected with ClientError is the last provider call of
\* the call; the last printed line is the error line naming that snapshot;
\* the call has returned without raising.
C4_CopyRejectedReturns ==
  \A k \in Calls : (log[k].op = "copy_snapshot" /\ log[k].res = "ClientError") =>
    /\ k = Len(log)
    /\ pc = "done"
    /\ exc = ""
    /\ out[Len(out)] = Line("error_copy_failed", "", log[k].snap, 0, "ClientError")

\* Three snapshots: the first copied, the copy of the second rejected.
C4_Witness ==
  /\ pc = "done"
  /\ Len(copy_snapshots) = 3
  /\ Len(destSnaps) = 1
  /\ log[Len(log)].op = "copy_snapshot"
  /\ log[Len(log)].res = "ClientError"
  /\ log[Len(log)].pos = 2

\* C5: with an empty volume list the function raises at its entry: no
\* provider call is ever made and no list is returned.
C5_EmptyListRaises ==
  Len(volumes) = 0 =>
    /\ log = <<>>
    /\ srcSnaps = <<>>
    /\ pc \in {"create_entry", "raised"}
    /\ pc = "raised" => exc = "Exception"

C5_Witness ==
  /\ Len(volumes) = 0
  /\ pc = "raised"
  /\ exc = "Exception"

\* C6: the list the function builds and returns is the ids of the
\* create_snapshot calls answered with 200, one per such volume, in input
\* order; it is no longer than the input and each id is a snapshot of an
\* input volume.
C6_ResultIsCreatedIds ==
  /\ pc \in {"describe_volumes", "create_snapshot"} => snapshots = CreatedIds(log)
  /\ CreateReturned =>
       /\ main_snapshots = CreatedIds(log)
       /\ Len(main_snapshots) <= Len(volumes)
       /\ \A m \in 1..Len(main_snapshots) :
            \E k \in Calls :
              /\ log[k].op = "create_snapshot" /\ log[k].res = "200"
              /\ log[k].snap = main_snapshots[m]
              /\ log[k].vol = volumes[log[k].pos]
              /\ srcSnaps[main_snapshots[m]].vol = log[k].vol
              /\ \A m2 \in 1..(m - 1) : \E k2 \in 1..(k - 1) :
                   log[k2].snap = main_snapshots[m2] /\ log[k2].pos < log[k].pos

\* Three volumes: one answered 200, one another status, one raised.
C6_Witness ==
  /\ pc = "main_if"
  /\ Len(volumes) = 3
  /\ Len(main_snapshots) = 1
  /\ \E k \in Calls : log[k].op = "create_snapshot" /\ log[k].res = "non200"
  /\ \E k \in Calls : CreateFailed(k)

ReplicationOps == {"wait", "describe_snapshots", "copy_snapshot"}

\* C7: with dest_region empty the replication is never invoked and no wait,
\* describe_snapshots or copy_snapshot is issued and the destination client
\* is never used; with dest_region set, once the creation phase has returned
\* the replication is invoked exactly once, with the returned list, and all
\* its provider calls come after the creation phase's.
C7_ReplicationOnlyWithDestRegion ==
  /\ dest_region = "" =>
       /\ copy_calls = 0
       /\ destSnaps = <<>>
       /\ \A k \in Calls : log[k].op \notin ReplicationOps /\ log[k].client # "dest"
  /\ dest_region # "" =>
       /\ copy_calls <= 1
       /\ copy_calls = 1 => copy_snapshots = main_snapshots
       /\ (CreateReturned /\ pc # "main_if") => copy_calls = 1
       /\ ~CreateReturned => copy_calls = 0
       /\ \A k \in Calls : log[k].op \in ReplicationOps =>
            /\ copy_calls = 1
            /\ \A m \in Calls : log[m].op \notin ReplicationOps => m < k

\* A run without dest_region that created two snapshots and ended.
C7_Witness ==
  /\ pc = "done"
  /\ dest_region = ""
  /\ Len(main_snapshots) = 2
  /\ copy_calls = 0

\* C8: every create_snapshot request carries exactly the tags the
\* describe_volumes call of the same iteration returned for the same volume.
C8_SnapshotTagsAreFetchedTags ==
  \A k \in Calls : log[k].op = "create_snapshot" =>
    /\ k > 1
    /\ log[k - 1].op = "describe_volumes"
    /\ log[k - 1].res = "ok"
    /\ log[k - 1].pos = log[k].pos
    /\ log[k - 1].vol = log[k].vol
    /\ log[k].vol = volumes[log[k].pos]
    /\ log[k].tags = log[k - 1].tags

\* Two create_snapshot requests of one run carrying different tags, the
\* second one's volume retagged before its tag fetch.
C8_Witness ==
  \E k \in Calls :
    /\ log[k].op = "create_snapshot"
    /\ log[k].pos = 2
    /\ log[k].tags # InitVolTags[log[k].vol]
    /\ log[k].tags # log[2].tags
    /\ log[k].tags = log[k - 1].tags

\* C9: every copy_snapshot request is issued on the destination client for
\* the snapshot of its iteration, names the source and destination regions
\* given to the call, and carries exactly the tags the describe_snapshots of
\* the same iteration returned, that call following the successful wait.
C9_CopyRequestCarriesFetchedTags ==
  \A k \in Calls : log[k].op = "copy_snapshot" =>
    /\ k > 2
    /\ log[k].client = "dest"
    /\ log[k].snap = copy_snapshots[log[k].pos]
    /\ log[k].src = SourceRegion
    /\ log[k].dst = dest_region
    /\ log[k - 1].op = "describe_snapshots"
    /\ log[k - 1].res = "ok"
    /\ log[k - 1].pos = log[k].pos
    /\ log[k - 1].snap = log[k].snap
    /\ log[k].tags = log[k - 1].tags
    /\ log[k - 2].op = "wait"
    /\ log[k - 2].res = "ok"
    /\ log[k - 2].pos = log[k].pos
    /\ log[k - 2].snap = log[k].snap

\* Two copies accepted, carrying different tags.
C9_Witness ==
  /\ Len(destSnaps) = 2
  /\ destSnaps[1].tags # destSnaps[2].tags
  /\ log[Len(log)].op = "copy_snapshot"
  /\ log[Len(log)].res = "ok"

\* C10: for every create_snapshot request that raised, the printed output
\* holds an error line naming that volume.
C10_CreateFailureReported ==
  \A k \in Calls : CreateFailed(k) =>
    \E m \in 1..Len(out) : out[m].vol = log[k].vol /\ out[m].detail = log[k].res

\* C11: copy_snapshot_to_dest_region called with an empty list prints the
\* count line with a count of zero, issues no wait, describe_snapshots or
\* copy_snapshot request, and returns without raising.
C11_EmptyReplicationIsNoOp ==
  (copy_calls = 1 /\ copy_snapshots = <<>> /\ pc # "copy_entry") =>
    /\ pc = "done"
    /\ exc = ""
    /\ out[Len(out)] = Line("found_snapshots", "", 0, 0, "")
    /\ destSnaps = <<>>
    /\ \A k \in Calls : log[k].op \notin ReplicationOps /\ log[k].client = "source"

\* Every create_snapshot of a two-volume run failed and the replication was
\* called with the empty list.
C11_Witness ==
  /\ pc = "done"
  /\ copy_calls = 1
  /\ copy_snapshots = <<>>
  /\ Len(volumes) = 2
  /\ \A p \in 1..2 : \E k \in Calls : CreateFailed(k) /\ log[k].pos = p

\* C12: a run ends with a raised error only when the volume list is empty
\* or a wait of the replication phase failed; every other run, provider
\* failures of the creation phase and a rejected copy included, ends without
\* an exception.
C12_RaisedOnlyOnEmptyListOrWait ==
  pc = "raised" =>
    \/ Len(volumes) = 0 /\ exc = "Exception"
    \/ exc = "WaiterError"

WaitsStarted == Cardinality({k \in Calls : log[k].op = "wait"})
WaitsSucceeded == Cardinality({k \in Calls : log[k].op = "wait" /\ log[k].res = "ok"})
CopiesIssued == Cardinality({k \in Calls : log[k].op = "copy_snapshot"})

\* C13: snapshots are handled one at a time in list order and each copy is
\* gated on readiness: copies issued <= waits succeeded <= waits started <=
\* length of the list; a copy for position p follows the successful wait of
\* position p; the wait of position p + 1 follows the accepted copy of
\* position p; waits and copies go up the list, one per position.
C13_SequentialGatedCopies ==
  /\ CopiesIssued <= WaitsSucceeded
  /\ WaitsSucceeded <= WaitsStarted
  /\ WaitsStarted <= Len(copy_snapshots)
  /\ \A k \in Calls : log[k].op = "copy_snapshot" =>
       \E m \in 1..(k - 1) :
         /\ log[m].op = "wait" /\ log[m].res = "ok"
         /\ log[m].pos = log[k].pos /\ log[m].snap = log[k].snap
  /\ \A k \in Calls : log[k].op = "wait" =>
       /\ log[k].pos \in 1..Len(copy_snapshots)
       /\ log[k].snap = copy_snapshots[log[k].pos]
       /\ log[k].pos > 1 =>
            \E m \in 1..(k - 1) :
              /\ log[m].op = "copy_snapshot" /\ log[m].res = "ok"
              /\ log[m].pos = log[k].pos - 1
  /\ \A k, m \in Calls :
       (k < m /\ log[k].op = log[m].op /\ log[k].op \in ReplicationOps)
         => log[k].pos < log[m].pos

\* Three snapshots, each waited for and copied, in turn.
C13_Witness ==
  /\ pc = "done"
  /\ Len(copy_snapshots) = 3
  /\ CopiesIssued = 3
  /\ WaitsSucceeded = 3
  /\ Len(destSnaps) = 3

\* The step issues a provider call of operation op.
Issues(op) == Len(log') = Len(log) + 1 /\ log'[Len(log')].op = op

\* C14, as claimed: the tags attached to a create_snapshot or copy_snapshot
\* request are the source's tags as they are at the moment of the request,
\* also when another actor changed them after the tag fetch.
C14_TagsCurrentAtRequest ==
  [][ /\ Issues("create_snapshot") =>
           log'[Len(log')].tags = volTags[log'[Len(log')].vol]
      /\ Issues("copy_snapshot") =>
           log'[Len(log')].tags = srcSnaps[log'[Len(log')].snap].tags ]_vars

\* C14, amended: the tags attached to a request are the source's tags as
\* they were at the moment of the tag fetch of the same iteration: the fetch
\* reads the source's current tags, nothing changes the fetched value before
\* the request, the request and the created snapshot or copy carry it, and
\* it differs from the source's tags at the request only after a retag.
C14_TagsAsAtFetch ==
  [][ /\ (pc = "describe_volumes" /\ pc' = "create_snapshot") =>
           volume_tags' = volTags[volumes[i]] /\ volTags' = volTags
      /\ (pc = "create_snapshot" /\ pc' = "create_snapshot") =>
           volume_tags' = volume_tags
      /\ Issues("create_snapshot") =>
           /\ log'[Len(log')].vol = volumes[i]
           /\ log'[Len(log')].tags = volume_tags
           /\ log'[Len(log')].res = "200" =>
                srcSnaps'[log'[Len(log')].snap].tags = volume_tags
           /\ volume_tags # volTags[volumes[i]] => retags > 0
      /\ (pc = "describe_snapshots" /\ pc' = "copy_snapshot") =>
           /\ snapshot_tags' = srcSnaps[copy_snapshots[j]].tags
           /\ srcSnaps' = srcSnaps
      /\ (pc = "copy_snapshot" /\ pc' = "copy_snapshot") =>
           snapshot_tags' = snapshot_tags
      /\ Issues("copy_snapshot") =>
           /\ log'[Len(log')].snap = copy_snapshots[j]
           /\ log'[Len(log')].tags = snapshot_tags
           /\ log'[Len(log')].res = "ok" =>
                destSnaps'[Len(destSnaps')].tags = snapshot_tags
           /\ snapshot_tags # srcSnaps[copy_snapshots[j]].tags => retags > 0
    ]_vars

\* A snapshot was just created with the fetched tags although its volume was
\* retagged between the tag fetch and the request.
C14_Witness ==
  /\ log # <<>>
  /\ log[Len(log)].op = "create_snapshot"
  /\ log[Len(log)].res = "200"
  /\ retags > 0
  /\ log[Len(log)].tags # volTags[log[Len(log)].vol]
  /\ log[Len(log)].tags = log[Len(log) - 1].tags
  /\ srcSnaps[log[Len(log)].snap].tags = log[Len(log)].tags

CopyPcs == {"copy_entry", "wait_start", "waiting", "describe_snapshots",
            "copy_snapshot"}

\* A step of copy_snapshot_to_dest_region itself (the other steps taken
\* while it runs are the provider's and other actors').
CopyStep ==
  /\ pc \in CopyPcs
  /\ <<pc, log, out, attempts, j>>' # <<pc, log, out, attempts, j>>

\* C15: no step of copy_snapshot_to_dest_region changes anything in the
\* source region (snapshots, their state and tags, volume tags); on the
\* source client it issues only the wait and describe_snapshots; the only
\* state-changing request is copy_snapshot, on the destination client, and
\* only an accepted copy_snapshot adds a snapshot, in the destination region.
C15_SourceRegionUntouched ==
  [][ CopyStep =>
        /\ srcSnaps' = srcSnaps
        /\ volTags' = volTags
        /\ Len(log') = Len(log) + 1 =>
             /\ log'[Len(log')].client = "source"
                  => log'[Len(log')].op \in {"wait", "describe_snapshots"}
             /\ log'[Len(log')].client = "dest"
                  => log'[Len(log')].op = "copy_snapshot"
        /\ destSnaps' # destSnaps =>
             /\ Issues("copy_snapshot")
             /\ log'[Len(log')].res = "ok"
             /\ Len(destSnaps') = Len(destSnaps) + 1
             /\ SubSeq(destSnaps', 1, Len(destSnaps)) = destSnaps
    ]_vars

\* Two snapshots waited for and copied; the source region still holds just
\* the two snapshots with the tags they were created with.
C15_Witness ==
  /\ pc = "done"
  /\ Len(destSnaps) = 2
  /\ Len(srcSnaps) = 2
  /\ retags = 0
  /\ \A s \in 1..2 : /\ srcSnaps[s].state = "completed"
                     /\ srcSnaps[s].tags = InitVolTags[srcSnaps[s].vol]

Ended == pc \in {"done", "raised"}

\* The calls of operation op go up the list, one per position.
OnePass(op) ==
  \A k \in Calls : log[k].op = op =>
    \A m \in (k + 1)..Len(log) : log[m].op = op => log[k].pos < log[m].pos

\* C16: a wait makes at most 10 polls: a wait under way has made fewer than
\* 10, and a wait that failed on a snapshot still pending made exactly 10;
\* each function makes at most one pass over its list; and every run ends
\* (returns or raises).
C16_BoundedPollingAndTermination ==
  /\ [](attempts <= 10)
  /\ [](pc = "waiting" => attempts < 10)
  /\ []((pc = "raised" /\ exc = "WaiterError"
           /\ srcSnaps[copy_snapshots[j]].state = "pending") => attempts = 10)
  /\ [](i <= Len(volumes) /\ j <= Len(copy_snapshots))
  /\ [](OnePass("describe_volumes") /\ OnePass("create_snapshot")
          /\ OnePass("wait") /\ OnePass("describe_snapshots")
          /\ OnePass("copy_snapshot"))
  /\ <>Ended

\* The second snapshot stayed pending through 10 polls and its wait failed.
C16_Witness ==
  /\ pc = "raised"
  /\ exc = "WaiterError"
  /\ j = 2
  /\ srcSnaps[copy_snapshots[j]].state = "pending"
  /\ attempts = 10

\* C17: a describe_snapshots that raises ClientError at position p is the
\* last provider call of the call: no copy request is issued for position p
\* or later, the last printed line is the error line naming that snapshot,
\* and the call has returned without raising.
C17_TagFetchClientErrorReturns ==
  \A k \in Calls :
    (log[k].op = "describe_snapshots" /\ log[k].res = "ClientError") =>
      /\ k = Len(log)
      /\ pc = "done"
      /\ exc = ""
      /\ log[k].snap = copy_snapshots[log[k].pos]
      /\ out[Len(out)] = Line("error_copy_failed", "", log[k].snap, 0, "ClientError")
      /\ \A m \in Calls : log[m].op = "copy_snapshot" => log[m].pos < log[k].pos
      /\ Len(destSnaps) = log[k].pos - 1

\* Three snapshots: the first copied, the tag fetch of the second failed
\* after its wait succeeded.
C17_Witness ==
  /\ pc = "done"
  /\ Len(copy_snapshots) = 3
  /\ Len(destSnaps) = 1
  /\ Len(log) > 1
  /\ log[Len(log)].op = "describe_snapshots"
  /\ log[Len(log)].res = "ClientError"
  /\ log[Len(log)].pos = 2
  /\ log[Len(log) - 1].op = "wait"
  /\ log[Len(log) - 1].res = "ok"
====
